---- MODULE Spec2Model ----
(***************************************************************************)
(* The "zephyr" Sphinx domain of doc/_extensions/zephyr/domain.py: the     *)
(* code-sample registry (domain data), the directives that fill it, the    *)
(* listings computed from it and cross-reference resolution.               *)
(*                                                                         *)
(* Python strings are sequences of one-character strings, so that          *)
(* casefold(), startswith(), dirname() and split() are computed.  Python   *)
(* dicts are insertion-ordered: a dict is a sequence of [key, val] entries *)
(* with pairwise distinct keys.                                            *)
(***************************************************************************)
EXTENDS Integers, Sequences, FiniteSets, TLC

(***************************************************************************)
(* Strings                                                                 *)
(***************************************************************************)

\* The characters in use, in code point order.
Alphabet == <<"\n", " ", "/", "A", "B", "a", "b", "g", "h", "i", "p", "q", "r", "s">>

Ord(c) == CHOOSE i \in 1..Len(Alphabet) : Alphabet[i] = c

\* str.casefold() on one character: upper case letters map to lower case.
FoldChar(c) == IF c = "A" THEN "a" ELSE IF c = "B" THEN "b" ELSE c

casefold(s) == [i \in 1..Len(s) |-> FoldChar(s[i])]

\* s < t for Python strings: lexicographic by code point, a proper prefix first.
RECURSIVE StrLess(_, _)
StrLess(s, t) ==
    IF t = <<>> THEN FALSE
    ELSE IF s = <<>> THEN TRUE
    ELSE IF s[1] = t[1] THEN StrLess(Tail(s), Tail(t))
    ELSE Ord(s[1]) < Ord(t[1])

StrLeq(s, t) == ~StrLess(t, s)

\* s.startswith(p)
startswith(s, p) == Len(p) <= Len(s) /\ SubSeq(s, 1, Len(p)) = p

\* s.rfind("/") + 1: the length of the longest prefix ending in "/", or 0.
RFindSlash(s) ==
    LET at == {i \in 1..Len(s) : s[i] = "/"}
    IN  IF at = {} THEN 0 ELSE CHOOSE i \in at : \A j \in at : j <= i

\* s.rstrip("/")
RECURSIVE rstrip(_)
rstrip(s) ==
    IF s # <<>> /\ s[Len(s)] = "/" THEN rstrip(SubSeq(s, 1, Len(s) - 1)) ELSE s

\* posixpath.dirname(p)
dirname(p) ==
    LET head == SubSeq(p, 1, RFindSlash(p))
    IN  IF head # <<>> /\ (\E i \in 1..Len(head) : head[i] # "/")
        THEN rstrip(head)
        ELSE head

\* str.split(): the maximal runs of non-blank characters, in order.
RECURSIVE SplitFrom(_, _)
SplitFrom(s, word) ==
    IF s = <<>> THEN (IF word = <<>> THEN <<>> ELSE <<word>>)
    ELSE IF s[1] = " "
         THEN (IF word = <<>> THEN <<>> ELSE <<word>>) \o SplitFrom(Tail(s), <<>>)
         ELSE SplitFrom(Tail(s), Append(word, s[1]))

split(s) == SplitFrom(s, <<>>)

\* x in list
InList(x, list) == \E i \in 1..Len(list) : list[i] = x

\* The description node of a directive: a container whose children are the
\* paragraphs parsed from the directive's content.
description_node(content) == content

\* Element.astext(): the children's texts joined by a blank line.
RECURSIVE astext(_)
astext(node) ==
    IF node = <<>> THEN <<>>
    ELSE IF Len(node) = 1 THEN node[1]
    ELSE node[1] \o <<"\n", "\n">> \o astext(Tail(node))

(***************************************************************************)
(* Insertion-ordered dicts                                                 *)
(***************************************************************************)

DictKeys(d) == {d[i].key : i \in 1..Len(d)}

DictGet(d, k) == d[CHOOSE i \in 1..Len(d) : d[i].key = k].val

DictValues(d) == [i \in 1..Len(d) |-> d[i].val]

\* d[k] = v: an existing key keeps its position, a new key goes last.
DictSet(d, k, v) ==
    IF k \in DictKeys(d)
    THEN [i \in 1..Len(d) |-> IF d[i].key = k THEN [key |-> k, val |-> v] ELSE d[i]]
    ELSE Append(d, [key |-> k, val |-> v])

\* d.update(other)
RECURSIVE DictUpdate(_, _)
DictUpdate(d, other) ==
    IF other = <<>> THEN d
    ELSE DictUpdate(DictSet(d, other[1].key, other[1].val), Tail(other))

(***************************************************************************)
(* Inputs of the handlers                                                  *)
(***************************************************************************)

\* Code sample ids (the directive's argument).
Ids == {<<"a">>, <<"B">>}

\* The directive's options: a dict that holds "name" and "relevant-api", or
\* neither.
NameOptions == {<<"A", "b">>}

ApiOptions == {<<"g", " ", "g", "h">>}

Options ==
    {[k \in D |-> IF k = "name" THEN n ELSE r] :
        D \in {{}, {"name", "relevant-api"}}, n \in NameOptions, r \in ApiOptions}

\* The directive's content: the paragraphs of the description.
Contents == {<<>>, <<<<"p">>, <<"q">>>>}

\* Document names: "s/i", "s/a/r" in a subdirectory of the directory of "s/i",
\* and "sb/r" in a sibling directory whose name starts with "s".
Docs == {<<"s", "/", "i">>, <<"s", "/", "a", "/", "r">>, <<"s", "b", "/", "r">>}

\* The documents that hold code-sample directives.
SampleDocs == {<<"s", "/", "a", "/", "r">>, <<"s", "b", "/", "r">>}

\* Category names.
CategoryNames == {<<"g">>, <<"h">>}

\* Doxygen group names.
Groups == {<<"g">>, <<"g", "h">>, <<"h">>}

(***************************************************************************)
(* State                                                                   *)
(***************************************************************************)

VARIABLES
    code_samples,            \* env.domaindata["zephyr"]["code-samples"]
    code_samples_categories, \* env.domaindata["zephyr"]["code-samples-categories"]
    out,                     \* what the last handler returned, logged and flagged
    calls,                   \* history: the last code-sample declaration of each id
    source,                  \* the directives of each document of a build
    unread,                  \* the documents of the build not read yet
    doctree,                 \* the nodes the directives of each read document returned
    base,                    \* the domain data before the shards of a parallel read
    shards,                  \* the worker shards not merged yet
    merged                   \* history: the shards merged, in the order of merging

vars == <<code_samples, code_samples_categories, out, calls, source, unread, doctree,
          base, shards, merged>>

\* The state of one build and of one parallel read, which the calls on the
\* registry itself leave alone.
build_vars == <<source, unread, doctree, base, shards, merged>>

\* ZephyrDomain.initial_data
initial_data == [code_samples |-> <<>>, code_samples_categories |-> <<>>]

(***************************************************************************)
(* ZephyrDomain                                                            *)
(***************************************************************************)

\* A faulty variant of add_code_sample: files the sample under its name.
add_code_sample_by_name(data, code_sample) ==
    DictSet(data, code_sample.name, code_sample)

\* A faulty variant of add_code_sample: keeps the entry a known id already has.
add_code_sample_keep_first(data, code_sample) ==
    IF code_sample.id \in DictKeys(data) THEN data
    ELSE DictSet(data, code_sample.id, code_sample)

\* ZephyrDomain.add_code_sample, on the "code-samples" dict
add_code_sample(data, code_sample) ==
    DictSet(data, code_sample.id, code_sample)

\* ZephyrDomain.add_code_sample_category, on the "code-samples-categories" dict
add_code_sample_category(data, name, description) ==
    DictSet(data, name, description)

\* A faulty variant of clear_doc_samples: drops the samples of the other documents.
clear_doc_samples_inverted(data, docname) ==
    SelectSeq(data, LAMBDA e : e.val.docname = docname)

\* ZephyrDomain.clear_doc: the new "code-samples" dict
clear_doc_samples(data, docname) ==
    SelectSeq(data, LAMBDA e : e.val.docname # docname)

\* A faulty variant of merge_dict: an entry already present is kept (setdefault).
RECURSIVE merge_dict_keep_own(_, _)
merge_dict_keep_own(data, otherdata) ==
    IF otherdata = <<>> THEN data
    ELSE merge_dict_keep_own(
            IF otherdata[1].key \in DictKeys(data) THEN data
            ELSE Append(data, otherdata[1]),
            Tail(otherdata))

\* A faulty variant of merge_dict: the incoming dict replaces the own one.
merge_dict_replace(data, otherdata) == otherdata

\* ZephyrDomain.merge_domaindata, on either dict of the domain data
merge_dict(data, otherdata) == DictUpdate(data, otherdata)

(***************************************************************************)
(* Directives, transforms and cross-references                             *)
(***************************************************************************)

\* options.get(k, default)
OptionsGet(options, k, default) ==
    IF k \in DOMAIN options THEN options[k] ELSE default

\* The code_sample dict that CodeSampleDirective.run builds.
code_sample_of(code_sample_id, options, content, docname) ==
    [id           |-> code_sample_id,
     name         |-> OptionsGet(options, "name", code_sample_id),
     description  |-> description_node(content),
     relevant_api |-> split(OptionsGet(options, "relevant-api", <<>>)),
     docname      |-> docname]

\* A faulty variant of duplicate_warnings: warns on every declaration.
duplicate_warnings_always(data, code_sample_id, docname) ==
    <<[code_sample_id |-> code_sample_id,
       other    |-> IF code_sample_id \in DictKeys(data)
                    THEN DictGet(data, code_sample_id).docname ELSE docname,
       location |-> docname]>>

\* The warnings CodeSampleDirective.run logs: one when the id is already a key
\* of the registry, naming the docname of the entry stored under it.
duplicate_warnings(data, code_sample_id, docname) ==
    IF code_sample_id \in DictKeys(data)
    THEN <<[code_sample_id |-> code_sample_id,
            other    |-> DictGet(data, code_sample_id).docname,
            location |-> docname]>>
    ELSE <<>>

\* CodeSampleDirective.run in document docname: the new registry, the warnings
\* logged, the document flagged as orphan and the nodes returned.
CodeSampleDirective_run(data, code_sample_id, options, content, docname) ==
    LET code_sample == code_sample_of(code_sample_id, options, content, docname)
    IN  [code_samples |-> add_code_sample(data, code_sample),
         warnings     |-> duplicate_warnings(data, code_sample_id, docname),
         orphan       |-> docname,
         nodes        |-> <<[node     |-> "CodeSampleNode",
                             id       |-> code_sample_id,
                             name     |-> code_sample.name,
                             children |-> <<code_sample.description>>]>>]

\* CodeSampleCategoryDirective.run: the new categories and the nodes returned.
CodeSampleCategoryDirective_run(data, name, content) ==
    [code_samples_categories |->
         add_code_sample_category(data, name, description_node(content)),
     nodes |-> <<[node     |-> "section",
                  title    |-> name,
                  children |-> <<description_node(content)>>]>>]

\* A faulty variant of sort_key: compares the names as they are written.
sort_key_case_sensitive(x) == x.name

\* key=lambda x: x["name"].casefold()
sort_key(x) == casefold(x.name)

\* Inserts x into the sorted list after every element whose key is not
\* greater than its own.
InsertSorted(list, x) ==
    LET after == {i \in 1..Len(list) : StrLess(sort_key(x), sort_key(list[i]))}
        at    == IF after = {} THEN Len(list) + 1
                 ELSE CHOOSE i \in after : \A j \in after : i <= j
    IN  SubSeq(list, 1, at - 1) \o <<x>> \o SubSeq(list, at, Len(list))

\* sorted(list, key=sort_key): a stable sort.
RECURSIVE sorted(_)
sorted(list) ==
    IF list = <<>> THEN <<>>
    ELSE InsertSorted(sorted(SubSeq(list, 1, Len(list) - 1)), list[Len(list)])

\* create_code_sample_definition_list: one item per code sample, sorted by name.
create_code_sample_definition_list(samples) ==
    LET ordered == sorted(samples)
    IN  [i \in 1..Len(ordered) |->
            [reftarget  |-> ordered[i].id,
             term       |-> ordered[i].name,
             definition |-> astext(ordered[i].description)]]

\* path.dirname(code_sample["docname"]).startswith(path.dirname(env.docname))
in_hierarchy(code_sample, docname) ==
    startswith(dirname(code_sample.docname), dirname(docname))

\* CodeSampleListingDirective.run in document docname: the definition list,
\* the toctree and the placeholder node returned; the document is noted for
\* re-reading in the next build.
CodeSampleListingDirective_run(data, docname) ==
    LET listed  == SelectSeq(DictValues(data), LAMBDA x : in_hierarchy(x, docname))
        ordered == SelectSeq(sorted(DictValues(data)),
                             LAMBDA x : in_hierarchy(x, docname))
    IN  [reread |-> docname,
         nodes  |-> <<[node  |-> "definition_list",
                       items |-> create_code_sample_definition_list(listed)],
                      [node         |-> "toctree",
                       parent       |-> docname,
                       entries      |-> [i \in 1..Len(ordered) |->
                                            <<ordered[i].name, ordered[i].docname>>],
                       includefiles |-> [i \in 1..Len(ordered) |-> ordered[i].docname]],
                      [node |-> "CodeSampleListingNode"]>>]

\* A faulty variant of references_group: looks the group up in the first
\* relevant API only.
references_group_first(code_sample, id) ==
    code_sample.relevant_api # <<>> /\ code_sample.relevant_api[1] = id

\* id in code_sample["relevant-api"]
references_group(code_sample, id) == InList(id, code_sample.relevant_api)

\* ProcessRelatedCodeSamplesNode.run on one RelatedCodeSamplesNode of group id:
\* the nodes that replace it.
ProcessRelatedCodeSamplesNode_run(data, id) ==
    LET related == SelectSeq(DictValues(data), LAMBDA x : references_group(x, id))
    IN  IF Len(related) > 0
        THEN <<[node    |-> "admonition",
                title   |-> "Related code samples",
                classes |-> <<"related-code-samples", "dropdown", "toggle-shown">>,
                items   |-> create_code_sample_definition_list(related)]>>
        ELSE <<>>

\* The result of a resolver that returns nothing.
None == [node |-> "None"]

\* A faulty variant of link_text: always shows the sample's name.
link_text_always_name(code_sample_info, refexplicit, contnode) ==
    code_sample_info.name

\* The text of the link: the sample's name unless the reference is explicit.
link_text(code_sample_info, refexplicit, contnode) ==
    IF ~refexplicit THEN code_sample_info.name ELSE contnode

\* ZephyrDomain.resolve_xref; make_refnode(builder, fromdocname, todocname,
\* targetid, child, title) is kept as the reference it describes.
resolve_xref(data, type, target, refexplicit, contnode) ==
    IF type = "code-sample" /\ target \in DictKeys(data)
    THEN LET code_sample_info == DictGet(data, target)
         IN  [node      |-> "reference",
              todocname |-> code_sample_info.docname,
              targetid  |-> code_sample_info.id,
              child     |-> link_text(code_sample_info, refexplicit, contnode),
              title     |-> astext(code_sample_info.description)]
    ELSE None

(***************************************************************************)
(* The registry under the calls of the host                                *)
(***************************************************************************)

\* The domain data of a parallel read worker that read one document holding at
\* most two code samples and at most one category.
ShardSamples ==
    {<<>>} \cup
    {CodeSampleDirective_run(<<>>, i, o, c, d).code_samples :
        i \in Ids, o \in Options, c \in {<<<<"p">>, <<"q">>>>}, d \in SampleDocs}
    \cup
    {CodeSampleDirective_run(
         CodeSampleDirective_run(<<>>, i, <<>>, <<<<"p">>, <<"q">>>>, d).code_samples,
         j, <<>>, <<<<"p">>, <<"q">>>>, d).code_samples :
        i \in Ids, j \in Ids, d \in SampleDocs}

ShardCategories ==
    {<<>>} \cup
    {CodeSampleCategoryDirective_run(<<>>, n, c).code_samples_categories :
        n \in CategoryNames, c \in {<<<<"p">>, <<"q">>>>}}

Shards ==
    {[code_samples |-> s, code_samples_categories |-> c] :
        s \in ShardSamples, c \in ShardCategories}

Init ==
    /\ code_samples = initial_data.code_samples
    /\ code_samples_categories = initial_data.code_samples_categories
    /\ out = [op |-> "init"]
    /\ calls = {}
    /\ source = <<>>
    /\ unread = {}
    /\ doctree = <<>>
    /\ base = initial_data
    /\ shards = {}
    /\ merged = <<>>

\* A zephyr:code-sample directive is run while document docname is read.
CodeSample(code_sample_id, options, content, docname) ==
    LET r == CodeSampleDirective_run(code_samples, code_sample_id, options,
                                     content, docname)
    IN  /\ code_samples' = r.code_samples
        /\ out' = [op       |-> "code-sample",
                   docname  |-> docname,
                   orphan   |-> r.orphan,
                   warnings |-> r.warnings,
                   nodes    |-> r.nodes]
        /\ UNCHANGED <<code_samples_categories, build_vars>>

\* A zephyr:code-sample-category directive is run.
CodeSampleCategory(name, content) ==
    LET r == CodeSampleCategoryDirective_run(code_samples_categories, name, content)
    IN  /\ code_samples_categories' = r.code_samples_categories
        /\ out' = [op |-> "code-sample-category", nodes |-> r.nodes]
        /\ UNCHANGED <<code_samples, build_vars>>

\* ZephyrDomain.clear_doc
clear_doc(docname) ==
    /\ code_samples' = clear_doc_samples(code_samples, docname)
    /\ out' = [op |-> "clear_doc", docname |-> docname]
    /\ UNCHANGED <<code_samples_categories, build_vars>>

\* ZephyrDomain.merge_domaindata
merge_domaindata(otherdata) ==
    /\ code_samples' = merge_dict(code_samples, otherdata.code_samples)
    /\ code_samples_categories' =
           merge_dict(code_samples_categories, otherdata.code_samples_categories)
    /\ out' = [op |-> "merge_domaindata", otherdata |-> otherdata]
    /\ UNCHANGED build_vars

\* A zephyr:code-sample-listing directive is run while docname is read.
CodeSampleListing(docname) ==
    LET r == CodeSampleListingDirective_run(code_samples, docname)
    IN  /\ out' = [op      |-> "code-sample-listing",
                   docname |-> docname,
                   reread  |-> r.reread,
                   nodes   |-> r.nodes]
        /\ UNCHANGED <<code_samples, code_samples_categories, build_vars>>

\* The post-transform replaces the RelatedCodeSamplesNode of group id.
ProcessRelatedCodeSamples(id) ==
    /\ out' = [op    |-> "related-code-samples",
               id    |-> id,
               nodes |-> ProcessRelatedCodeSamplesNode_run(code_samples, id)]
    /\ UNCHANGED <<code_samples, code_samples_categories, build_vars>>

\* The host resolves a pending cross-reference.
ResolveXref(type, target, refexplicit, contnode) ==
    /\ out' = [op          |-> "resolve_xref",
               type        |-> type,
               target      |-> target,
               refexplicit |-> refexplicit,
               contnode    |-> contnode,
               result      |-> resolve_xref(code_samples, type, target,
                                            refexplicit, contnode)]
    /\ UNCHANGED <<code_samples, code_samples_categories, build_vars>>

\* Reference targets: the ids and one that is never declared.
Targets == Ids \cup {<<"q">>}

\* Reference types of the host.
RefTypes == {"code-sample", "ref"}

\* The text an explicit reference gives.
ExplicitTexts == {<<"s">>}

Declare ==
    \E i \in Ids, o \in Options, c \in Contents, d \in SampleDocs :
        CodeSample(i, o, c, d)

DeclareCategory ==
    \E n \in CategoryNames, c \in Contents : CodeSampleCategory(n, c)

Clear == \E d \in Docs : clear_doc(d)

Merge == \E otherdata \in Shards : merge_domaindata(otherdata)

List == \E d \in Docs : CodeSampleListing(d)

Related == \E g \in Groups : ProcessRelatedCodeSamples(g)

Resolve ==
    \E t \in RefTypes, target \in Targets, e \in BOOLEAN, text \in ExplicitTexts :
        ResolveXref(t, target, e, text)

\* The registry under declarations, removals and merges.
Next ==
    \/ Declare /\ UNCHANGED calls
    \/ DeclareCategory /\ UNCHANGED calls
    \/ Clear /\ UNCHANGED calls
    \/ Merge /\ UNCHANGED calls

Spec == Init /\ [][Next]_vars

\* The registry under declarations and removals, and what is computed from it.
NextQuery ==
    \/ Declare /\ UNCHANGED calls
    \/ Clear /\ UNCHANGED calls
    \/ List /\ UNCHANGED calls
    \/ Related /\ UNCHANGED calls
    \/ Resolve /\ UNCHANGED calls

SpecQuery == Init /\ [][NextQuery]_vars

(***************************************************************************)
(* Declarations alone, with the last declaration of each id remembered     *)
(***************************************************************************)

DeclareLogged ==
    \E i \in Ids, o \in Options, c \in Contents, d \in SampleDocs :
        /\ CodeSample(i, o, c, d)
        /\ calls' = {x \in calls : x.code_sample_id # i} \cup
                    {[code_sample_id |-> i, options |-> o, content |-> c,
                      docname |-> d]}

NextDeclare == DeclareLogged

SpecDeclare == Init /\ [][NextDeclare]_vars

(***************************************************************************)
(* A parallel read: the shards of the workers are merged in any order      *)
(***************************************************************************)

\* The number of worker shards of a parallel read.
MaxShards == 2

\* The domain data before the merge: empty, or with both ids and a category.
BaseData ==
    {initial_data,
     [code_samples |->
          CodeSampleDirective_run(
              CodeSampleDirective_run(<<>>, <<"B">>, <<>>, <<>>,
                                      <<"s", "/", "a", "/", "r">>).code_samples,
              <<"a">>, <<>>, <<>>, <<"s", "/", "a", "/", "r">>).code_samples,
      code_samples_categories |->
          CodeSampleCategoryDirective_run(<<>>, <<"g">>, <<>>).code_samples_categories]}

InitShards ==
    /\ base \in BaseData
    /\ code_samples = base.code_samples
    /\ code_samples_categories = base.code_samples_categories
    /\ out = [op |-> "init"]
    /\ calls = {}
    /\ source = <<>>
    /\ unread = {}
    /\ doctree = <<>>
    /\ shards \in UNION {{{f[i] : i \in 1..n} : f \in [1..n -> Shards]} : n \in 0..MaxShards}
    /\ merged = <<>>

\* The main process merges the shard of one worker.
MergeShard ==
    \E otherdata \in shards :
        /\ code_samples' = merge_dict(code_samples, otherdata.code_samples)
        /\ code_samples_categories' =
               merge_dict(code_samples_categories, otherdata.code_samples_categories)
        /\ out' = [op |-> "merge_domaindata", otherdata |-> otherdata]
        /\ shards' = shards \ {otherdata}
        /\ merged' = Append(merged, otherdata)
        /\ UNCHANGED <<calls, source, unread, doctree, base>>

NextShards == MergeShard

SpecShards == InitShards /\ [][NextShards]_vars

(***************************************************************************)
(* One build: the documents are read one after the other, in any order     *)
(***************************************************************************)

\* The number of directives of a document.
MaxDirectives == 2

\* The zephyr directives a document may hold.
BuildDirectives ==
    {[directive |-> "code-sample-listing"]} \cup
    {[directive |-> "code-sample", arguments |-> <<i>>, options |-> <<>>,
      content |-> <<<<"p">>>>] : i \in Ids}

DocSources == UNION {[1..n -> BuildDirectives] : n \in 0..MaxDirectives}

\* The directives of a document run in the order of the text, each on the
\* registry the ones before it left: the registry and the nodes returned.
RECURSIVE RunDirectives(_, _, _, _)
RunDirectives(data, nodes, directives, docname) ==
    IF directives = <<>> THEN [code_samples |-> data, nodes |-> nodes]
    ELSE LET dv == directives[1]
         IN  IF dv.directive = "code-sample"
             THEN LET r == CodeSampleDirective_run(data, dv.arguments[1], dv.options,
                                                   dv.content, docname)
                  IN  RunDirectives(r.code_samples, nodes \o r.nodes,
                                    Tail(directives), docname)
             ELSE LET r == CodeSampleListingDirective_run(data, docname)
                  IN  RunDirectives(data, nodes \o r.nodes, Tail(directives), docname)

InitBuild ==
    /\ code_samples = initial_data.code_samples
    /\ code_samples_categories = initial_data.code_samples_categories
    /\ out = [op |-> "init"]
    /\ calls = {}
    /\ source \in [Docs -> DocSources]
    /\ unread = Docs
    /\ doctree = [d \in Docs |-> <<>>]
    /\ base = initial_data
    /\ shards = {}
    /\ merged = <<>>

\* The host reads document docname: its directives are run.
ReadDoc ==
    \E docname \in unread :
        LET r == RunDirectives(code_samples, <<>>, source[docname], docname)
        IN  /\ code_samples' = r.code_samples
            /\ doctree' = [doctree EXCEPT ![docname] = r.nodes]
            /\ unread' = unread \ {docname}
            /\ out' = [op |-> "read_doc", docname |-> docname]
            /\ UNCHANGED <<code_samples_categories, calls, source, base, shards, merged>>

NextBuild == ReadDoc

SpecBuild == InitBuild /\ [][NextBuild]_vars

(***************************************************************************)
(* Properties                                                              *)
(***************************************************************************)

\* The ids the declarations so far were made for.
DeclaredIds == {c.code_sample_id : c \in calls}

\* C1: after any sequence of code-sample declarations from the empty registry,
\* the registry holds exactly one entry per declared id, and that entry is the
\* payload (name, description, relevant APIs, document) of the last
\* declaration of the id.
C1_LastDeclarationStored ==
    /\ DictKeys(code_samples) = DeclaredIds
    /\ Len(code_samples) = Cardinality(DeclaredIds)
    /\ \A c \in calls :
        LET e == DictGet(code_samples, c.code_sample_id)
        IN  /\ e.id = c.code_sample_id
            /\ e.name = IF "name" \in DOMAIN c.options THEN c.options["name"]
                        ELSE c.code_sample_id
            /\ e.description = c.content
            /\ e.relevant_api =
                   IF "relevant-api" \in DOMAIN c.options
                   THEN split(c.options["relevant-api"]) ELSE <<>>
            /\ e.docname = c.docname

\* Both ids are declared and the last declaration replaced an entry that
\* another document had made.
C1_Witness ==
    /\ Cardinality(calls) = 2
    /\ out.op = "code-sample"
    /\ out.warnings # <<>>
    /\ out.warnings[1].other # out.docname

\* C2: a declaration of an id that was not declared before logs no warning; a
\* declaration of an id whose last declaration came from document d1 logs
\* exactly one warning, which names d1; the new declaration is stored.
C2_OneDuplicateWarning ==
    [][out'.op = "code-sample" =>
        LET i       == out'.nodes[1].id
            earlier == {c \in calls : c.code_sample_id = i}
        IN  /\ earlier = {} => out'.warnings = <<>>
            /\ \A c \in earlier :
                   out'.warnings = <<[code_sample_id |-> i,
                                      other          |-> c.docname,
                                      location       |-> out'.docname]>>
            /\ i \in DictKeys(code_samples')
            /\ DictGet(code_samples', i).docname = out'.docname]_vars

\* The second declaration of an id, from another document than the first, has
\* logged one warning that names the first document.
C2_Witness ==
    /\ out.op = "code-sample"
    /\ Len(out.warnings) = 1
    /\ out.warnings[1].other # out.docname
    /\ \E c \in calls : c.code_sample_id = out.nodes[1].id /\ c.docname = out.docname

\* C3: clear_doc(d) removes every sample of document d and nothing else: no
\* sample of d is left, every sample of another document is still there
\* under its key with the same contents, nothing is added, and the categories
\* are as before.
C3_ClearRemovesTheDocument ==
    [][out'.op = "clear_doc" =>
        LET d == out'.docname
        IN  /\ \A j \in 1..Len(code_samples') : code_samples'[j].val.docname # d
            /\ \A i \in 1..Len(code_samples) :
                   code_samples[i].val.docname # d =>
                       \E j \in 1..Len(code_samples') : code_samples'[j] = code_samples[i]
            /\ \A j \in 1..Len(code_samples') :
                   \E i \in 1..Len(code_samples) : code_samples[i] = code_samples'[j]
            /\ code_samples_categories' = code_samples_categories]_vars

\* clear_doc has run on a registry with categories and left a sample of the
\* other document.
C3_Witness ==
    /\ out.op = "clear_doc"
    /\ Len(code_samples) = 1
    /\ code_samples[1].val.docname # out.docname
    /\ code_samples_categories # <<>>

\* The dict R is the key-wise union of A and B in which B's entries win.
UnionWithIncomingWinning(A, B, R) ==
    /\ DictKeys(R) = DictKeys(A) \cup DictKeys(B)
    /\ Len(R) = Cardinality(DictKeys(R))
    /\ \A k \in DictKeys(B) : DictGet(R, k) = DictGet(B, k)
    /\ \A k \in DictKeys(A) \ DictKeys(B) : DictGet(R, k) = DictGet(A, k)
    /\ DictKeys(A) \cap DictKeys(B) = {} => Len(R) = Len(A) + Len(B)

\* C4: merge_domaindata yields, for the code samples and for the categories,
\* the key-wise union of the registry and the incoming shard: with disjoint
\* keys the sizes add up, a key of both holds the shard's entry, a key of the
\* registry alone keeps its entry.
C4_MergeIsUnion ==
    [][out'.op = "merge_domaindata" =>
        /\ UnionWithIncomingWinning(code_samples, out'.otherdata.code_samples,
                                    code_samples')
        /\ UnionWithIncomingWinning(code_samples_categories,
                                    out'.otherdata.code_samples_categories,
                                    code_samples_categories')]_vars

\* A shard with one sample and one category was merged into a registry that
\* had another sample and another category.
C4_Witness ==
    /\ out.op = "merge_domaindata"
    /\ Len(out.otherdata.code_samples) = 1
    /\ Len(out.otherdata.code_samples_categories) = 1
    /\ Len(code_samples) = 2
    /\ Len(code_samples_categories) = 2

\* The items are in non-decreasing order of case-folded name.
SortedByFoldedName(names) ==
    \A i \in 1..Len(names), j \in 1..Len(names) :
        i < j => StrLeq(casefold(names[i]), casefold(names[j]))

C5_WitnessLeftOut ==
    /\ out.op = "code-sample-listing"
    /\ out.docname = <<"s", "/", "a", "/", "r">>
    /\ Len(out.nodes[1].items) = 1
    /\ Len(code_samples) = 2

\* C6: a code-sample reference to a declared id resolves to a link to the
\* sample's document and id, with the plain text of the description as
\* tooltip and with the sample's name as text unless the reference gave its
\* own; a reference to an undeclared id resolves to None; the registry is not
\* changed.
C6_ResolveXref ==
    [][out'.op = "resolve_xref" /\ out'.type = "code-sample" =>
        /\ code_samples' = code_samples
        /\ code_samples_categories' = code_samples_categories
        /\ IF \E i \in 1..Len(code_samples) : code_samples[i].val.id = out'.target
           THEN \E i \in 1..Len(code_samples) :
                   LET x == code_samples[i].val
                   IN  /\ x.id = out'.target
                       /\ out'.result.node = "reference"
                       /\ out'.result.todocname = x.docname
                       /\ out'.result.targetid = x.id
                       /\ out'.result.title = astext(x.description)
                       /\ out'.result.child =
                              IF out'.refexplicit THEN out'.contnode ELSE x.name
           ELSE out'.result = None]_vars

\* An explicit reference to a declared sample resolved to a link that shows
\* the reference's own text, with a tooltip of two paragraphs.
C6_Witness ==
    /\ out.op = "resolve_xref"
    /\ out.refexplicit
    /\ out.result # None
    /\ out.result.child = out.contnode
    /\ out.result.title = <<"p", "\n", "\n", "q">>

C8_ListingComplete ==
    unread = {} =>
        \A d \in Docs :
            \A n \in 1..Len(doctree[d]) :
                doctree[d][n].node = "definition_list" =>
                    \A i \in 1..Len(code_samples) :
                        LET x == code_samples[i].val
                        IN  startswith(dirname(x.docname), dirname(d)) =>
                                /\ \E m \in 1..Len(doctree[d][n].items) :
                                       doctree[d][n].items[m].reftarget = x.id
                                /\ \E m \in 1..Len(doctree[d][n + 1].entries) :
                                       doctree[d][n + 1].entries[m] =
                                           <<x.name, x.docname>>

\* The shards of the parallel read: those merged and those still to merge.
AllShards == shards \cup {merged[n] : n \in 1..Len(merged)}

\* No two shards hold the same sample id or the same category name.
KeyDisjoint ==
    \A n \in 1..Len(merged), m \in 1..Len(merged) :
        n # m =>
            /\ DictKeys(merged[n].code_samples) \cap
                   DictKeys(merged[m].code_samples) = {}
            /\ DictKeys(merged[n].code_samples_categories) \cap
                   DictKeys(merged[m].code_samples_categories) = {}

\* The dict R holds, for every key of a merged shard, the entry of the shard
\* merged last among those that have the key, and for every other key the
\* entry of A.
LastMergedWins(A, R, field) ==
    /\ DictKeys(R) =
           DictKeys(A) \cup UNION {DictKeys(merged[n][field]) : n \in 1..Len(merged)}
    /\ \A k \in DictKeys(R) :
           LET having == {n \in 1..Len(merged) : k \in DictKeys(merged[n][field])}
           IN  IF having = {} THEN DictGet(R, k) = DictGet(A, k)
               ELSE \E n \in having :
                       /\ \A m \in having : m <= n
                       /\ DictGet(R, k) = DictGet(merged[n][field], k)

\* The dict R is what the key-disjoint shards determine without regard to
\* the order of merging: every key of a shard holds that shard's entry, every
\* other key the entry of A.
UnionOfShards(A, R, field) ==
    /\ DictKeys(R) =
           DictKeys(A) \cup UNION {DictKeys(s[field]) : s \in AllShards}
    /\ \A k \in DictKeys(R) :
           /\ \A s \in AllShards :
                  k \in DictKeys(s[field]) => DictGet(R, k) = DictGet(s[field], k)
           /\ (\A s \in AllShards : k \notin DictKeys(s[field])) =>
                  DictGet(R, k) = DictGet(A, k)

\* C9: the entry of an id (or category name) that merged shards hold is the one
\* of the shard merged last; and once all shards are merged, if no two of
\* them hold the same key, the registry is the one the set of shards
\* determines, whatever the order of merging was.
C9_MergeOrder ==
    /\ LastMergedWins(base.code_samples, code_samples, "code_samples")
    /\ LastMergedWins(base.code_samples_categories, code_samples_categories,
                      "code_samples_categories")
    /\ (shards = {} /\ KeyDisjoint) =>
           /\ UnionOfShards(base.code_samples, code_samples, "code_samples")
           /\ UnionOfShards(base.code_samples_categories, code_samples_categories,
                            "code_samples_categories")

\* Two key-disjoint shards, each with a sample and a category, are merged into
\* a registry that already had both ids.
C9_Witness ==
    /\ shards = {}
    /\ Len(merged) = 2
    /\ KeyDisjoint
    /\ \A n \in 1..2 :
           /\ Len(merged[n].code_samples) = 1
           /\ Len(merged[n].code_samples_categories) = 1
    /\ base.code_samples # <<>>

\* C10: every sample is stored under its own id, and no two entries of the
\* registry hold samples of the same id.
C10_KeyIsId ==
    /\ \A i \in 1..Len(code_samples) : code_samples[i].val.id = code_samples[i].key
    /\ \A i \in 1..Len(code_samples), j \in 1..Len(code_samples) :
           code_samples[i].val.id = code_samples[j].val.id => i = j

\* A merge has left two samples in the registry, one of them with a name
\* that is not its id.
C10_Witness ==
    /\ out.op = "merge_domaindata"
    /\ Len(code_samples) = 2
    /\ \E i \in 1..2 : code_samples[i].val.name # code_samples[i].val.id

====
